---- MODULE Spec2Model ----
(***************************************************************************)
(* Model of the Intel Media SDK hardware video decoder wrapper            *)
(* (src/src/hwenc_msdk/msdk_video_decoder.cpp, MsdkVideoDecoderImpl).      *)
(*                                                                         *)
(* One decoder instance is driven by a single caller thread.  The Media    *)
(* SDK engine (MFXVideoDECODE, MFXVideoCORE_SyncOperation) is the          *)
(* environment: every answer it gives is a nondeterministic choice.        *)
(*                                                                         *)
(* Next to it, the selection of an encoder by SoraVideoEncoderFactory      *)
(* (src/src/sora_video_encoder_factory.cpp), specified by FactorySpec.     *)
(***************************************************************************)
EXTENDS Integers, Sequences, FiniteSets, TLC

\* ---------------------------------------------------------------- bounds
InitialCapacity == 1   \* bitstream_buffer_.resize(1024 * 1024), scaled down
MaxChunk == 2          \* largest input_image.size() fed in one Decode call
MaxBytes == 3          \* total number of input bytes fed over a behaviour
MaxFeed == 1           \* the same two where the whole interface is exercised
MaxSurfaces == 2       \* largest alloc_request_.NumFrameSuggested
MaxBusy == 1           \* most MFX_WRN_DEVICE_BUSY answers within one call
NumSinks == 2          \* distinct DecodedImageCallback objects
MaxTimestamp == 2      \* distinct input_image.Timestamp() values
MaxEncoders == 2       \* most entries of config_.encoders

\* ------------------------------------------------------- values and codes
Garb == 0 - 1          \* a byte of memory the program does not own
ZeroByte == 0          \* value-initialised element of std::vector<uint8_t>

OK == "WEBRTC_VIDEO_CODEC_OK"
UNINITIALIZED == "WEBRTC_VIDEO_CODEC_UNINITIALIZED"
ERR_PARAMETER == "WEBRTC_VIDEO_CODEC_ERR_PARAMETER"
ERROR == "WEBRTC_VIDEO_CODEC_ERROR"
NoReturn == "none"     \* the call has not returned (in progress or crashed)

MFX_ERR_NONE == "MFX_ERR_NONE"
MFX_ERR_MORE_DATA == "MFX_ERR_MORE_DATA"
MFX_WRN_DEVICE_BUSY == "MFX_WRN_DEVICE_BUSY"
MFX_ERR_UNKNOWN == "MFX_ERR_UNKNOWN"
MFX_WRN_VIDEO_PARAM_CHANGED == "MFX_WRN_VIDEO_PARAM_CHANGED"
NoStatus == "none"

\* statuses DecodeFrameAsync may answer
SubmitStatuses ==
  {MFX_ERR_NONE, MFX_ERR_MORE_DATA, MFX_WRN_DEVICE_BUSY, MFX_ERR_UNKNOWN}
\* statuses Query may answer: fine, a warning, an error
QueryStatuses == {MFX_ERR_NONE, MFX_WRN_VIDEO_PARAM_CHANGED, MFX_ERR_UNKNOWN}
\* statuses Query / Init / GetVideoParam / QueryIOSurf / SyncOperation answer
CallStatuses == {MFX_ERR_NONE, MFX_ERR_UNKNOWN}

Min(a, b) == IF a < b THEN a ELSE b
Max(a, b) == IF a > b THEN a ELSE b

VARIABLES
  decoder,      \* decoder_: "null" or "live"
  sink,         \* decode_complete_callback_: 0 is nullptr
  bufSize,      \* bitstream_buffer_.size()
  heap,         \* bytes at bitstream_.Data; the first bufSize are the vector
  bsInit,       \* bitstream_ has been memset and filled by InitMediaSDK
  MaxLength,    \* bitstream_.MaxLength
  DataOffset,   \* bitstream_.DataOffset
  DataLength,   \* bitstream_.DataLength
  surfaces,     \* surfaces_: sequence of Data.Locked flags
  poolAlloc,    \* buffer_pool_ holds frame buffers
  pc,           \* position of the caller thread
  cur,          \* Decode local: index of the surface found by find_if
  pts,          \* Decode local: pts
  nsub,         \* DecodeFrameAsync calls made by the current Decode call
  nbusy,        \* of which answered MFX_WRN_DEVICE_BUSY
  call,         \* the most recent API call
  ret,          \* its return value
  lastSts,      \* status of the most recent DecodeFrameAsync of this call
  lastTok,      \* syncp after it: 0 is null
  syncRes,      \* status of SyncOperation in this call, NoStatus if not made
  delivCall,    \* Decoded() callbacks made by the current Decode call
  lastFrame,    \* the most recent frame handed to a sink
  closeCount,   \* Close() calls made on the current engine session
  nextByte,     \* next fresh input byte value
  unconsumed,   \* input bytes fed and not yet consumed by the engine
  cfgFailed,    \* a step of the most recent Configure failed
  probe,        \* the most recent CreateDecoder: Init called, Query accepted
  runMore,      \* the current run of Decode calls has a MORE_DATA call
  runDeliv,     \* Decoded() callbacks made during the run
  runOK,        \* every call of the run so far returned OK
  lifecycle,    \* "fresh"; "released" since Release with no Configure that
                \* returned true; "renewed" by such a Configure
  registered,   \* argument of the most recent RegisterDecodeCompleteCallback
  argTs,        \* input_image.Timestamp() of the Decode call in progress or
                \* of the call that has just delivered a frame, else 0
  config_,      \* SoraVideoEncoderFactory::config_
  formats_,     \* SoraVideoEncoderFactory::formats_, one list per encoder
  created       \* the most recent call of the encoder factory and its outcome

decVars ==
  <<decoder, sink, bufSize, heap, bsInit, MaxLength, DataOffset, DataLength,
    surfaces, poolAlloc, pc, cur, pts, nsub, nbusy, call, ret, lastSts,
    lastTok, syncRes, delivCall, lastFrame, closeCount, nextByte, unconsumed,
    cfgFailed, probe, runMore, runDeliv, runOK, lifecycle,
    registered, argTs>>
facVars == <<config_, formats_, created>>
vars == <<decVars, facVars>>

\* the accumulator and the pool of the instance
accVars == <<bufSize, heap, bsInit, MaxLength, DataOffset, DataLength>>
obsVars == <<nsub, nbusy, lastSts, lastTok, syncRes, delivCall, lastFrame>>
runVars == <<runMore, runDeliv, runOK>>
localVars == <<cur, pts>>

NoFrame == [sink |-> 0, ts |-> 0]

\* ------------------------------------------------------------ memory model
\* byte at 1-based position i of the memory that starts at bitstream_.Data
Rd(h, i) == IF i <= Len(h) THEN h[i] ELSE Garb

\* write the bytes w at 0-based position p
Wr(h, p, w) ==
  [i \in 1..Max(Len(h), p + Len(w)) |->
     IF i > p /\ i <= p + Len(w) THEN w[i - p] ELSE Rd(h, i)]

\* std::vector<uint8_t>::resize(n): keeps the first min(size, n) elements and
\* value-initialises the rest
Resize(h, size, n) ==
  [i \in 1..n |-> IF i <= Min(size, n) THEN h[i] ELSE ZeroByte]

\* the bytes the engine is handed: Data[DataOffset, DataOffset + DataLength)
ViewOf(h, off, len) == [i \in 1..len |-> Rd(h, off + i)]
View == ViewOf(heap, DataOffset, DataLength)

\* after an access outside the vector the bytes out there hold what was
\* written or anything else
Clobber(h, size, kept) ==
  [i \in 1..Len(h) |-> IF i > size /\ ~kept THEN Garb ELSE h[i]]


\* ------------------------------------------------- MsdkVideoDecoderImpl
\* mfxStatus is negative for errors and positive for warnings
IsMfxError(sts) == sts \in {MFX_ERR_MORE_DATA, MFX_ERR_UNKNOWN}

\* MSDK_CHECK_RESULT(sts, MFX_ERR_NONE, sts) of msdk_utils.h: TRUE when the
\* check fails and the enclosing function reports an error
MsdkCheckFails(sts) == sts # MFX_ERR_NONE

\* a failed check that hands the engine status itself to the caller
RawStatusReturn(sts) == sts

\* what Decode returns when MSDK_CHECK_RESULT fails: a decode error
CheckResultReturn(sts) == ERROR

\* CreateDecoder that runs Init whatever the init argument says
CreateDecoderAlwaysInit(querySts, initSts, init) ==
  IF IsMfxError(querySts)
    THEN [decoder |-> "null", inited |-> FALSE]
    ELSE IF initSts # MFX_ERR_NONE
      THEN [decoder |-> "null", inited |-> TRUE]
      ELSE [decoder |-> "live", inited |-> TRUE]

\* CreateDecoder: Query, then Init only when asked to; the decoder handed back
CreateDecoder(querySts, initSts, init) ==
  IF IsMfxError(querySts)
    THEN [decoder |-> "null", inited |-> FALSE]
    ELSE IF init
      THEN IF initSts # MFX_ERR_NONE
             THEN [decoder |-> "null", inited |-> TRUE]
             ELSE [decoder |-> "live", inited |-> TRUE]
      ELSE [decoder |-> "live", inited |-> FALSE]

\* the head of Decode without the check of decode_complete_callback_
PreconditionNoSinkCheck(dec, snk, nul, size) ==
  IF dec = "null" THEN UNINITIALIZED
  ELSE IF nul /\ size > 0 THEN ERR_PARAMETER
  ELSE OK

\* the head of Decode without the check of input_image.data()
PreconditionNoDataCheck(dec, snk, nul, size) ==
  IF dec = "null" THEN UNINITIALIZED
  ELSE IF snk = 0 THEN UNINITIALIZED
  ELSE OK

\* the three checks at the head of Decode; OK when all pass
Precondition(dec, snk, nul, size) ==
  IF dec = "null" THEN UNINITIALIZED
  ELSE IF snk = 0 THEN UNINITIALIZED
  ELSE IF nul /\ size > 0 THEN ERR_PARAMETER
  ELSE OK

\* an append that never grows the buffer
NeverGrow(ml, len, size) == FALSE

\* the growth test and the MaxLength set after the resize
NeedsGrow(ml, len, size) == ml < len + size
GrownMaxLength(len, newSize) == len + newSize

\* a Decode that leaves the accumulator as it found it
AppendNothing(h, size, ml, off, len, chunk) ==
  [heap |-> h, bufSize |-> size, MaxLength |-> ml, DataOffset |-> off,
   DataLength |-> len, outside |-> FALSE]

\* grow if needed, compact to the front, copy the chunk behind
AppendChunk(h, size, ml, off, len, chunk) ==
  LET n == len + Len(chunk)
      grow == NeedsGrow(ml, len, Len(chunk))
      h1 == IF grow THEN Resize(h, size, n) ELSE h
      size1 == IF grow THEN n ELSE size
      ml1 == IF grow THEN GrownMaxLength(len, n) ELSE ml
      h2 == Wr(h1, 0, ViewOf(h1, off, len))
      h3 == Wr(h2, len, chunk)
  IN [heap |-> h3, bufSize |-> size1, MaxLength |-> ml1, DataOffset |-> 0,
      DataLength |-> n,
      outside |-> (len > 0 /\ off + len > size1) \/
                  (Len(chunk) > 0 /\ n > size1)]

\* a find_if that takes the first surface whatever its Locked flag
AcquireFirst(surfs) == IF Len(surfs) > 0 THEN 1 ELSE 0

\* a find_if that scans from the back: the last surface not locked
AcquireLast(surfs) ==
  IF \E i \in 1..Len(surfs) : ~surfs[i]
    THEN CHOOSE i \in 1..Len(surfs) :
           ~surfs[i] /\ \A j \in (i + 1)..Len(surfs) : surfs[j]
    ELSE 0

\* std::find_if over surfaces_: the first surface not locked, 0 for end()
AcquireFree(surfs) ==
  IF \E i \in 1..Len(surfs) : ~surfs[i]
    THEN CHOOSE i \in 1..Len(surfs) :
           ~surfs[i] /\ \A j \in 1..(i - 1) : surfs[j]
    ELSE 0

\* a loop that gives up on the first answer
NeverRetry(sts) == FALSE

\* the while (true) loop around DecodeFrameAsync
ShouldRetry(sts) == sts = MFX_WRN_DEVICE_BUSY

\* Decode without the early return on MFX_ERR_MORE_DATA
AfterSubmitNoMoreData(sts, tok) ==
  IF tok = 0 THEN "return_ok"
  ELSE IF MsdkCheckFails(sts) THEN "return_error"
  ELSE "sync"

\* Decode without the early return on a null syncp
AfterSubmitNoTokenCheck(sts, tok) ==
  IF sts = MFX_ERR_MORE_DATA THEN "return_ok"
  ELSE IF MsdkCheckFails(sts) THEN "return_error"
  ELSE "sync"

\* what Decode does once the loop is left
AfterSubmit(sts, tok) ==
  IF sts = MFX_ERR_MORE_DATA THEN "return_ok"
  ELSE IF tok = 0 THEN "return_ok"
  ELSE IF MsdkCheckFails(sts) THEN "return_error"
  ELSE "sync"

\* a registration that keeps a callback once it has one
KeepFirstSink(old, cb) == IF old = 0 THEN cb ELSE old

\* decode_complete_callback_ = callback
NewSink(old, cb) == cb

\* a ReleaseMediaSDK that closes without looking
AlwaysClose(dec) == TRUE

\* ReleaseMediaSDK closes the session only when there is one
ShouldClose(dec) == dec # "null"

\* a frame built without set_timestamp_rtp
NoTimestamp(p) == 0

\* uint64_t pts = input_image.Timestamp()
PtsOf(ts) == ts

\* set_timestamp_rtp(pts): Timestamp() is a uint32_t, widened into pts and
\* narrowed back here without loss
FrameTimestamp(p) == p

Fresh(n, size) == [i \in 1..size |-> n + i - 1]
Drop(s, c) == SubSeq(s, c + 1, Len(s))
Unlocked(n) == [i \in 1..n |-> FALSE]

\* ----------------------------------------------------------------- Init
DecoderInit ==
  /\ decoder = "null"
  /\ sink = 0
  /\ bufSize = 0
  /\ heap = <<>>
  /\ bsInit = FALSE
  /\ MaxLength = 0
  /\ DataOffset = 0
  /\ DataLength = 0
  /\ surfaces = <<>>
  /\ poolAlloc = FALSE
  /\ pc = "idle"
  /\ cur = 0
  /\ pts = 0
  /\ nsub = 0
  /\ nbusy = 0
  /\ call = "Create"
  /\ ret = NoReturn
  /\ lastSts = NoStatus
  /\ lastTok = 0
  /\ syncRes = NoStatus
  /\ delivCall = 0
  /\ lastFrame = NoFrame
  /\ closeCount = 0
  /\ nextByte = 1
  /\ unconsumed = <<>>
  /\ cfgFailed = FALSE
  /\ probe = [op |-> "none", inited |-> FALSE, queryOK |-> FALSE]
  /\ runMore = FALSE
  /\ runDeliv = 0
  /\ runOK = TRUE
  /\ lifecycle = "fresh"
  /\ registered = 0
  /\ argTs = 0

\* ------------------------------------------- SoraVideoEncoderFactory: data
\* (src/src/sora_video_encoder_factory.cpp)
\* an SdpVideoFormat: its name and the codec parameters that tell two
\* formats of one name apart
VP8 == [name |-> "VP8", profile |-> 0]
H264a == [name |-> "H264", profile |-> 0]
H264b == [name |-> "H264", profile |-> 1]
NoFormat == [name |-> "none", profile |-> 0]
Formats == {VP8, H264a, H264b}
CodecNames == {"VP8", "H264"}

\* the lists a factory or a get_supported_formats function may hand out
FormatLists == {<<>>, <<VP8>>, <<H264a>>, <<H264b, H264a>>}

\* SdpVideoFormat::IsSameCodec: same name and same codec parameters
IsSameCodec(f, g) == f.name = g.name /\ f.profile = g.profile

\* GetDefaultVideoFormats(enc.codec): formats of that codec
GetDefaultVideoFormats(codec) == <<[name |-> codec, profile |-> 0]>>

\* a VideoEncoderConfig: which of factory, get_supported_formats and
\* create_video_encoder are set, its codec, and the list its factory or its
\* get_supported_formats function hands out
Encoders ==
  [factory : {TRUE}, get_supported_formats : {FALSE},
   create_video_encoder : BOOLEAN, codec : {"generic"},
   offers : FormatLists]
  \cup
  [factory : {FALSE}, get_supported_formats : {TRUE},
   create_video_encoder : BOOLEAN, codec : {"generic"},
   offers : FormatLists]
  \cup
  [factory : {FALSE}, get_supported_formats : {FALSE},
   create_video_encoder : BOOLEAN, codec : CodecNames,
   offers : {<<>>}]

Configs ==
  [encoders : UNION {[1..n -> Encoders] : n \in 0..MaxEncoders},
   use_simulcast_adapter : BOOLEAN]

NoCreate ==
  [op |-> "none", format |-> NoFormat, result |-> "none", by |-> 0,
   via |-> "none"]

\* the decoder next to an encoder factory configured with no encoder
Init ==
  /\ DecoderInit
  /\ config_ = [encoders |-> <<>>, use_simulcast_adapter |-> FALSE]
  /\ formats_ = <<>>
  /\ created = NoCreate

\* bookkeeping: what is recorded about a call starts afresh with each call
ObsReset ==
  /\ nsub' = 0
  /\ nbusy' = 0
  /\ lastSts' = NoStatus
  /\ lastTok' = 0
  /\ syncRes' = NoStatus
  /\ delivCall' = 0
  /\ lastFrame' = NoFrame

RunReset == runMore' = FALSE /\ runDeliv' = 0 /\ runOK' = TRUE
NoProbe == [op |-> "none", inited |-> FALSE, queryOK |-> FALSE]

\* ------------------------------------------------------------- Configure
\* Configure -> InitMediaSDK.  decoder_->GetVideoParam on the nullptr that
\* CreateDecoder hands back after a failed Query or Init is a null
\* dereference: the process dies there.
ConfigureWith(counts) ==
  /\ pc = "idle"
  /\ \E q \in QueryStatuses, i \in CallStatuses,
        g \in CallStatuses, s \in CallStatuses, n \in counts :
       LET cd == CreateDecoder(q, i, TRUE) IN
       /\ call' = "Configure"
       /\ probe' = [op |-> "Configure", inited |-> cd.inited,
                    queryOK |-> ~IsMfxError(q)]
       /\ decoder' = cd.decoder
       /\ closeCount' = IF cd.decoder = "live" THEN 0 ELSE closeCount
       /\ ObsReset
       /\ RunReset
       /\ argTs' = 0
       /\ UNCHANGED facVars
       /\ UNCHANGED <<sink, registered, poolAlloc, localVars, nextByte>>
       /\ IF cd.decoder = "null"
            THEN /\ pc' = "crashed"
                 /\ ret' = NoReturn
                 /\ cfgFailed' = TRUE
                 /\ UNCHANGED <<accVars, surfaces, unconsumed, lifecycle>>
          ELSE IF g # MFX_ERR_NONE \/ MsdkCheckFails(s)
            THEN /\ pc' = "idle"
                 /\ ret' = "false"
                 /\ cfgFailed' = TRUE
                 /\ UNCHANGED <<accVars, surfaces, unconsumed, lifecycle>>
          ELSE /\ pc' = "idle"
               /\ ret' = "true"
               /\ cfgFailed' = FALSE
               /\ bufSize' = InitialCapacity
               /\ heap' = Resize(heap, bufSize, InitialCapacity)
               /\ bsInit' = TRUE
               /\ MaxLength' = InitialCapacity
               /\ DataOffset' = 0
               /\ DataLength' = 0
               /\ unconsumed' = <<>>
               /\ surfaces' = Unlocked(n)
               /\ lifecycle' = IF lifecycle = "fresh" THEN "fresh"
                                                      ELSE "renewed"

\* ---------------------------------------------------------------- Decode
\* A run is a sequence of consecutive Decode calls of which all but the last
\* were answered MFX_ERR_MORE_DATA.  A Decode call continues the run when the
\* call before it was a Decode call answered MFX_ERR_MORE_DATA.
InRun == lastSts = MFX_ERR_MORE_DATA

\* lines 160-207: checks, append, find_if
DecodeBegin(nul, size, ts, budget) ==
  /\ pc = "idle"
  /\ call' = "Decode"
  /\ ObsReset
  /\ probe' = NoProbe
  /\ UNCHANGED facVars
  /\ UNCHANGED <<lifecycle, registered, decoder, sink, poolAlloc, closeCount,
                 cfgFailed>>
  /\ LET pre == Precondition(decoder, sink, nul, size) IN
     IF pre # OK
       THEN /\ ret' = pre
            /\ RunReset
            /\ argTs' = 0
            /\ UNCHANGED <<accVars, surfaces, pc, localVars, nextByte,
                           unconsumed>>
     ELSE IF ~bsInit
       \* bitstream_ was never filled in: its fields and Data are whatever
       \* the memory held, and the copies go wherever they point
       THEN /\ UNCHANGED <<accVars, surfaces, localVars, nextByte, unconsumed>>
            /\ RunReset
            /\ argTs' = 0
            /\ \E survives \in BOOLEAN :
                 IF survives /\ AcquireFree(surfaces) = 0
                   THEN pc' = "idle" /\ ret' = ERROR
                   ELSE pc' = "crashed" /\ ret' = NoReturn
     ELSE
       /\ nextByte + size <= budget + 1
       /\ LET a == AppendChunk(heap, bufSize, MaxLength, DataOffset,
                               DataLength, Fresh(nextByte, size))
              s == AcquireFree(surfaces)
          IN /\ \E kept \in (IF a.outside THEN BOOLEAN ELSE {TRUE}) :
                  heap' = Clobber(a.heap, a.bufSize, kept)
             /\ bufSize' = a.bufSize
             /\ MaxLength' = a.MaxLength
             /\ DataOffset' = a.DataOffset
             /\ DataLength' = a.DataLength
             /\ bsInit' = bsInit
             /\ nextByte' = nextByte + size
             /\ unconsumed' = unconsumed \o Fresh(nextByte, size)
             /\ UNCHANGED surfaces
             /\ IF s = 0
                  THEN /\ ret' = ERROR
                       /\ RunReset
                       /\ argTs' = 0
                       /\ UNCHANGED <<pc, localVars>>
                  ELSE /\ ret' = NoReturn
                       /\ runMore' = InRun
                       /\ runDeliv' = IF InRun THEN runDeliv ELSE 0
                       /\ runOK' = IF InRun THEN runOK ELSE TRUE
                       /\ pc' = "submit"
                       /\ cur' = s
                       /\ pts' = PtsOf(ts)
                       /\ argTs' = ts

DecodeWith(sizes, stamps, budget) ==
  \E nul \in BOOLEAN, size \in sizes, ts \in stamps :
    DecodeBegin(nul, size, ts, budget)

\* lines 210-228: one DecodeFrameAsync and what follows when the loop ends.
\* The engine consumes c bytes of the view, may leave a sync point, and may
\* keep the work surface locked.
Submit(sts, c, tok, lock) ==
  /\ pc = "submit"
  /\ c <= DataLength
  /\ lastSts' = sts
  /\ DataOffset' = DataOffset + c
  /\ DataLength' = DataLength - c
  /\ unconsumed' = Drop(unconsumed, Min(c, Len(unconsumed)))
  /\ surfaces' = [surfaces EXCEPT ![cur] = lock]
  /\ UNCHANGED facVars
  /\ UNCHANGED <<lifecycle, registered, decoder, sink, bufSize, heap, bsInit,
                 MaxLength, poolAlloc,
                 call, syncRes, delivCall, lastFrame, closeCount, nextByte,
                 cfgFailed, probe, runMore, runDeliv>>
  /\ IF ShouldRetry(sts)
       THEN /\ nsub' = nsub + 1
            /\ nbusy' = nbusy + 1
            /\ lastTok' = 0
            /\ UNCHANGED <<pc, ret, runOK, localVars, argTs>>
       ELSE /\ nsub' = nsub + 1
            /\ nbusy' = nbusy
            /\ lastTok' = IF sts = MFX_ERR_MORE_DATA THEN 0 ELSE tok
            /\ LET next == AfterSubmit(sts, tok) IN
               IF next = "sync"
                 THEN /\ pc' = "sync"
                      /\ UNCHANGED <<ret, runOK, localVars, argTs>>
                 ELSE /\ pc' = "idle"
                      /\ ret' = IF next = "return_ok"
                                   THEN OK ELSE CheckResultReturn(sts)
                      /\ runOK' = (runOK /\ next = "return_ok")
                      /\ cur' = 0
                      /\ pts' = 0
                      /\ argTs' = 0

\* the engine cannot take the submission now: nothing consumed, nothing kept
SubmitBusy ==
  /\ nbusy < MaxBusy
  /\ Submit(MFX_WRN_DEVICE_BUSY, 0, 0, FALSE)

SubmitAnswer ==
  \E sts \in SubmitStatuses \ {MFX_WRN_DEVICE_BUSY}, c \in 0..DataLength,
     tok \in 0..1, lock \in BOOLEAN :
    Submit(sts, c, tok, lock)

\* lines 230-250: SyncOperation, conversion, Decoded()
Sync ==
  /\ pc = "sync"
  /\ \E sts \in CallStatuses :
       /\ syncRes' = sts
       /\ IF MsdkCheckFails(sts)
            THEN /\ ret' = CheckResultReturn(sts)
                 /\ runOK' = FALSE
                 /\ argTs' = 0
                 /\ UNCHANGED <<poolAlloc, delivCall, lastFrame, runDeliv>>
            ELSE /\ ret' = OK
                 /\ runOK' = runOK
                 /\ poolAlloc' = TRUE
                 /\ delivCall' = delivCall + 1
                 /\ runDeliv' = runDeliv + 1
                 /\ lastFrame' = [sink |-> sink, ts |-> FrameTimestamp(pts)]
                 /\ argTs' = argTs
  /\ pc' = "idle"
  /\ cur' = 0
  /\ pts' = 0
  /\ UNCHANGED facVars
  /\ UNCHANGED <<lifecycle, registered, decoder, sink, accVars, surfaces,
                 nsub, nbusy, call, lastSts,
                 lastTok, closeCount, nextByte, unconsumed, cfgFailed, probe,
                 runMore>>

\* the engine finishes with a surface and clears its Locked flag
EngineUnlock ==
  /\ pc # "crashed"
  /\ decoder = "live"
  /\ \E i \in 1..Len(surfaces) :
       /\ surfaces[i]
       /\ surfaces' = [surfaces EXCEPT ![i] = FALSE]
  /\ UNCHANGED facVars
  /\ UNCHANGED <<lifecycle, registered, argTs, decoder, sink, accVars,
                 poolAlloc, pc, localVars, obsVars,
                 call, ret, closeCount, nextByte, unconsumed, cfgFailed,
                 probe, runVars>>

\* ------------------------------------ RegisterDecodeCompleteCallback
RegisterWith(sinks) ==
  /\ pc = "idle"
  /\ \E cb \in sinks :
       /\ sink' = NewSink(sink, cb)
       /\ registered' = cb
       /\ call' = "RegisterDecodeCompleteCallback"
  /\ ret' = OK
  /\ ObsReset
  /\ RunReset
  /\ argTs' = 0
  /\ probe' = NoProbe
  /\ UNCHANGED facVars
  /\ UNCHANGED <<lifecycle, decoder, accVars, surfaces, poolAlloc, pc,
                 localVars,
                 closeCount, nextByte, unconsumed, cfgFailed>>

\* --------------------------------------------------------------- Release
Release ==
  /\ pc = "idle"
  /\ call' = "Release"
  /\ closeCount' = IF ShouldClose(decoder) THEN closeCount + 1 ELSE closeCount
  /\ decoder' = "null"
  /\ poolAlloc' = FALSE
  /\ lifecycle' = "released"
  /\ ret' = OK
  /\ ObsReset
  /\ RunReset
  /\ argTs' = 0
  /\ probe' = NoProbe
  /\ UNCHANGED facVars
  /\ UNCHANGED <<sink, registered, accVars, surfaces, pc, localVars, nextByte,
                 unconsumed, cfgFailed>>

\* ----------------------------------------------- MsdkVideoDecoder::IsSupported
IsSupported ==
  /\ pc = "idle"
  /\ \E sessionNull \in BOOLEAN, q \in QueryStatuses,
        i \in CallStatuses :
       LET cd == CreateDecoder(q, i, FALSE) IN
       /\ call' = "IsSupported"
       /\ IF sessionNull
            THEN /\ ret' = "false"
                 /\ probe' = [op |-> "IsSupported", inited |-> FALSE,
                              queryOK |-> FALSE]
            ELSE /\ ret' = IF cd.decoder # "null" THEN "true" ELSE "false"
                 /\ probe' = [op |-> "IsSupported", inited |-> cd.inited,
                              queryOK |-> ~IsMfxError(q)]
  /\ ObsReset
  /\ RunReset
  /\ argTs' = 0
  /\ UNCHANGED facVars
  /\ UNCHANGED <<lifecycle, registered, decoder, sink, accVars, surfaces,
                 poolAlloc, pc, localVars,
                 closeCount, nextByte, unconsumed, cfgFailed>>

\* ------------------------------------------------ SoraVideoEncoderFactory
\* lines 65-71: where the formats of one encoder come from
SupportedFormatsOf(enc) ==
  IF enc.factory THEN enc.offers
  ELSE IF enc.get_supported_formats THEN enc.offers
  ELSE GetDefaultVideoFormats(enc.codec)

\* formats_ as GetSupportedFormats leaves it: one list per encoder, in order
CachedFormats(cfg) ==
  [i \in 1..Len(cfg.encoders) |-> SupportedFormatsOf(cfg.encoders[i])]

\* lines 114-118: some format of the list is the same codec as the request
Matches(list, format) ==
  \E k \in 1..Len(list) : IsSameCodec(list[k], format)

\* a scan of the encoders from the back
RECURSIVE SelectFromBack(_, _, _, _)
SelectFromBack(encs, fm, format, n) ==
  LET m == Len(encs) + 1 - n IN
  IF n > Len(encs) THEN 0
  ELSE IF Matches(fm[m], format) THEN m
  ELSE SelectFromBack(encs, fm, format, n + 1)

\* lines 94-123: the loop over config_.encoders with formats_[n++], from
\* encoder n on; the index of the encoder whose creation function is called,
\* 0 when the loop runs out
RECURSIVE SelectEncoder(_, _, _, _)
SelectEncoder(encs, fm, format, n) ==
  IF n > Len(encs) THEN 0
  ELSE IF Matches(fm[n], format) THEN n
  ELSE SelectEncoder(encs, fm, format, n + 1)

\* lines 104-111: the std::function that is called; it stays empty when the
\* encoder has neither a factory nor a create_video_encoder
CreationFunction(enc) ==
  IF enc.factory THEN "factory"
  ELSE IF enc.create_video_encoder THEN "function"
  ELSE "empty"

\* the factory as constructed from any configuration
FactoryInit ==
  /\ DecoderInit
  /\ config_ \in Configs
  /\ formats_ = <<>>
  /\ created = NoCreate

GetSupportedFormats ==
  /\ formats_' = CachedFormats(config_)
  /\ created' = [op |-> "GetSupportedFormats", format |-> NoFormat,
                  result |-> "formats", by |-> 0, via |-> "none"]
  /\ UNCHANGED <<config_, decVars>>

\* CreateVideoEncoder(format).  Calling an empty std::function throws
\* std::bad_function_call; the encoder a factory or a creation function
\* hands back may be null.
CreateVideoEncoder ==
  \E format \in Formats, made \in {"encoder", "null"} :
    /\ UNCHANGED <<config_, decVars>>
    /\ IF config_.use_simulcast_adapter
         THEN /\ created' = [op |-> "CreateVideoEncoder", format |-> format,
                             result |-> "adapter", by |-> 0, via |-> "none"]
              /\ UNCHANGED formats_
         ELSE LET fm == IF formats_ = <<>> THEN CachedFormats(config_)
                                           ELSE formats_
                  n == SelectEncoder(config_.encoders, fm, format, 1)
                  via == IF n = 0 THEN "none"
                         ELSE CreationFunction(config_.encoders[n])
              IN /\ formats_' = fm
                 /\ created' =
                      [op |-> "CreateVideoEncoder", format |-> format,
                       result |-> IF n = 0 THEN "null"
                                  ELSE IF via = "empty" THEN "throw"
                                  ELSE made,
                       by |-> n, via |-> via]

\* ------------------------------------------------------- specifications
\* the whole interface: a pool of one surface, at most MaxFeed bytes fed
Configure == ConfigureWith({1})
Decode == DecodeWith(0..MaxFeed, 1..MaxTimestamp, MaxFeed)
RegisterDecodeCompleteCallback == RegisterWith(0..NumSinks)

Next ==
  \/ Configure
  \/ Decode
  \/ SubmitBusy
  \/ SubmitAnswer
  \/ Sync
  \/ EngineUnlock
  \/ RegisterDecodeCompleteCallback
  \/ Release
  \/ IsSupported

Spec == Init /\ [][Next]_vars

\* the engine eventually answers a submission with something other than
\* busy, and SyncOperation returns within its timeout
FairSpec == Spec /\ WF_vars(SubmitAnswer) /\ WF_vars(Sync)

\* the accumulator: one sink, a pool of one surface, chunks of up to MaxChunk
\* bytes and MaxBytes bytes in all
AccConfigure == ConfigureWith({1})
AccDecode == DecodeWith(0..MaxChunk, {1}, MaxBytes)
AccRegister == RegisterWith({1})

AccNext ==
  \/ AccConfigure
  \/ AccRegister
  \/ AccDecode
  \/ SubmitBusy
  \/ SubmitAnswer
  \/ Sync
  \/ EngineUnlock

AccSpec == Init /\ [][AccNext]_vars

\* the surface pool: one sink, pools of up to MaxSurfaces surfaces, empty
\* chunks
PoolConfigure == ConfigureWith(1..MaxSurfaces)
PoolDecode == DecodeWith({0}, {1}, 0)
PoolRegister == RegisterWith({1})

PoolNext ==
  \/ PoolConfigure
  \/ PoolRegister
  \/ PoolDecode
  \/ SubmitBusy
  \/ SubmitAnswer
  \/ Sync
  \/ EngineUnlock

PoolSpec == Init /\ [][PoolNext]_vars

\* the encoder factory on its own, over every configuration
FactoryNext ==
  \/ GetSupportedFormats
  \/ CreateVideoEncoder

FactorySpec == FactoryInit /\ [][FactoryNext]_vars

TypeOK ==
  /\ decoder \in {"null", "live"}
  /\ sink \in 0..NumSinks
  /\ pc \in {"idle", "submit", "sync", "crashed"}
  /\ Len(heap) >= bufSize
  /\ nsub \in {nbusy, nbusy + 1}
  /\ lifecycle \in {"fresh", "released", "renewed"}
  /\ registered \in 0..NumSinks
  /\ argTs \in 0..MaxTimestamp
  /\ config_ \in Configs
  /\ Len(formats_) \in {0, Len(config_.encoders)}

\* ================================================================ claims
\* a Decode call has returned and nothing was called since
Returned == call = "Decode" /\ pc = "idle"
Fatal(sts) == sts \notin {MFX_ERR_NONE, MFX_ERR_MORE_DATA, MFX_WRN_DEVICE_BUSY,
                          NoStatus}
instVars == <<decoder, sink, accVars, surfaces, poolAlloc, closeCount>>

\* C1 Pool mutual exclusion: whenever Decode is about to call DecodeFrameAsync,
\* on the first attempt and on every resubmission after a busy answer, the
\* surface it passes is a surface of the pool whose Locked flag is clear.
PoolMutualExclusion ==
  pc = "submit" => (cur \in 1..Len(surfaces) /\ ~surfaces[cur])

\* a resubmission after a busy answer, of the second surface because the
\* engine still holds the first
PoolMutualExclusionWitness ==
  pc = "submit" /\ nbusy > 0 /\ cur = 2 /\ surfaces[1]

\* C2 Accumulation correctness: at the first submission of a Decode call the
\* view handed to the engine starts at offset 0 and is exactly the bytes fed
\* so far and not consumed, in order: what was left before the call followed
\* by the chunk of the call.
AccumulationCorrect ==
  (pc = "submit" /\ nsub = 0) =>
    (DataOffset = 0 /\ DataLength = Len(unconsumed) /\ View = unconsumed)

\* C3 Fatal propagation: when DecodeFrameAsync answers a status other than
\* success, more-data or busy, Decode returns an error, makes no
\* SyncOperation call and delivers no frame, whatever became of syncp.
FatalPropagation ==
  (Returned /\ Fatal(lastSts)) =>
    (ret \notin {OK, NoReturn} /\ syncRes = NoStatus /\ delivCall = 0)

\* C4 Busy-retry convergence, as claimed: a Decode call whose submissions are
\* answered busy N times and then success makes N + 1 submissions and
\* returns OK, and no call returns on a busy answer.
BusyRetryReturnsOK ==
  /\ Returned => lastSts # MFX_WRN_DEVICE_BUSY
  /\ (Returned /\ lastSts = MFX_ERR_NONE) => (nsub = nbusy + 1 /\ ret = OK)

\* C4 as amended: ... makes N + 1 submissions and returns OK unless the
\* SyncOperation wait on the sync point fails, and then ERROR; no call
\* returns on a busy answer; and under the fairness of FairSpec every Decode
\* call that reached the submit loop returns.
BusyRetryReturn ==
  /\ Returned => lastSts # MFX_WRN_DEVICE_BUSY
  /\ (Returned /\ lastSts = MFX_ERR_NONE) =>
       /\ nsub = nbusy + 1
       /\ ret = IF syncRes \in {NoStatus, MFX_ERR_NONE} THEN OK ELSE ERROR
BusyRetryConvergence ==
  /\ []BusyRetryReturn
  /\ (pc \in {"submit", "sync"}) ~> (pc = "idle")

\* a call that was answered busy as often as the bound allows, then success
BusyRetryWitness ==
  Returned /\ lastSts = MFX_ERR_NONE /\ nbusy = MaxBusy /\ ret = OK

\* C5 Uninitialized use: a Decode call made while decoder_ or the callback is
\* null returns UNINITIALIZED for every input and changes neither the
\* accumulator nor any Locked flag, submits nothing and delivers nothing.
UninitializedUse ==
  [][(Decode /\ (decoder = "null" \/ sink = 0)) =>
       /\ ret' = UNINITIALIZED
       /\ pc' = "idle"
       /\ UNCHANGED <<accVars, surfaces, unconsumed>>
       /\ nsub' = 0
       /\ delivCall' = 0]_vars

\* a Decode call refused after Release while bytes wait in the accumulator
UninitializedUseWitness ==
  Returned /\ ret = UNINITIALIZED /\ decoder = "null" /\ DataLength > 0

\* C6 Input validation: with decoder_ and the callback set, a chunk with null
\* data and a nonzero size is answered ERR_PARAMETER with the accumulator and
\* the pool unchanged and nothing submitted; a chunk of size zero is not
\* refused and leaves DataLength as it was.
NullChunk == \E size \in 1..MaxFeed, ts \in 1..MaxTimestamp :
               DecodeBegin(TRUE, size, ts, MaxFeed)
EmptyChunk == \E nul \in BOOLEAN, ts \in 1..MaxTimestamp :
                DecodeBegin(nul, 0, ts, MaxFeed)
InputValidation ==
  [][(decoder = "live" /\ sink # 0) =>
       /\ NullChunk =>
            /\ ret' = ERR_PARAMETER
            /\ pc' = "idle"
            /\ UNCHANGED <<accVars, surfaces, unconsumed>>
            /\ nsub' = 0
       /\ EmptyChunk =>
            /\ ret' \notin {ERR_PARAMETER, UNINITIALIZED}
            /\ DataLength' = DataLength]_vars

\* a null chunk refused while bytes wait in the accumulator
InputValidationWitness ==
  Returned /\ ret = ERR_PARAMETER /\ DataLength > 0

\* C7 Configure failure: when a step of Configure fails Configure returns
\* false and decoder_ is null, so that a later Decode returns UNINITIALIZED.
ConfigureFailure ==
  /\ (call = "Configure" /\ cfgFailed) => (ret = "false" /\ decoder = "null")
  /\ (Returned /\ cfgFailed) => ret = UNINITIALIZED

\* C8 Idempotent release: Release always returns OK; a Release that follows a
\* Release changes nothing; a session is closed at most once.
IdempotentRelease ==
  /\ [][Release =>
          /\ ret' = OK
          /\ decoder' = "null"
          /\ call = "Release" => UNCHANGED instVars]_vars
  /\ [](closeCount <= 1)

\* released after a session was configured and frames were fed
IdempotentReleaseWitness ==
  call = "Release" /\ closeCount = 1 /\ bsInit /\ DataLength > 0

\* C9 Side-effect-free probe: IsSupported answers true exactly when the
\* session is not null and Query does not fail, never calls Init, and leaves
\* the decoder instance as it was.
ProbeSideEffectFree ==
  [][IsSupported =>
       /\ UNCHANGED instVars
       /\ ~probe'.inited
       /\ ret' = IF probe'.queryOK THEN "true" ELSE "false"]_vars

\* a probe that answered false next to a configured instance holding bytes
ProbeWitness ==
  call = "IsSupported" /\ ret = "false" /\ decoder = "live" /\ DataLength > 0

AnyDecode == DecodeWith(0..MaxChunk, 1..MaxTimestamp, MaxBytes)
AllLocked == \A i \in 1..Len(surfaces) : surfaces[i]

\* C11 Resource exhaustion: a Decode call that passes the checks and gets as
\* far as find_if returns ERROR when every surface is locked, with no
\* DecodeFrameAsync call, no second look at the pool (no Locked flag changes
\* and the call is over) and no frame; otherwise it goes on to submit the
\* first surface, in pool order, whose Locked flag is clear.
ResourceExhaustion ==
  [][(AnyDecode /\ decoder = "live" /\ sink # 0 /\ ret' # ERR_PARAMETER
        /\ pc' # "crashed") =>
       IF AllLocked
         THEN /\ ret' = ERROR
              /\ pc' = "idle"
              /\ nsub' = 0
              /\ delivCall' = 0
              /\ syncRes' = NoStatus
              /\ surfaces' = surfaces
         ELSE /\ pc' = "submit"
              /\ cur' \in 1..Len(surfaces)
              /\ ~surfaces[cur']
              /\ \A j \in 1..(cur' - 1) : surfaces[j]]_vars

\* a Decode call refused because the engine holds both surfaces of the pool
ResourceExhaustionWitness ==
  Returned /\ ret = ERROR /\ Len(surfaces) = 2 /\ AllLocked /\ nsub = 0

\* the call returned on MFX_ERR_MORE_DATA or on success with syncp null
NoOutput ==
  Returned /\ (lastSts = MFX_ERR_MORE_DATA \/
               (lastSts = MFX_ERR_NONE /\ lastTok = 0))

\* C12 No-output outcomes: a Decode call whose DecodeFrameAsync answers
\* MFX_ERR_MORE_DATA, or success with a null sync point, returns OK without
\* a SyncOperation call and without a frame, and what the accumulator then
\* holds, Data[DataOffset, DataOffset + DataLength), is exactly the bytes fed
\* and not consumed, in order.
NoOutputOutcome ==
  NoOutput =>
    /\ ret = OK
    /\ syncRes = NoStatus
    /\ delivCall = 0
    /\ DataLength = Len(unconsumed)
    /\ View = unconsumed

\* any Configure call the specifications make
AnyConfigure == ConfigureWith(1..MaxSurfaces)

\* C13 Session lifecycle: from a Release until a Configure returns true every
\* Decode call returns UNINITIALIZED; a Configure that returns true after a
\* Release leaves a live decoder, DataOffset = 0, DataLength = 0 and a pool
\* of surfaces none of which is locked, and the Decode calls that follow are
\* no longer refused as uninitialized once a callback is registered.
SessionLifecycle ==
  /\ [][(AnyDecode /\ lifecycle = "released") => ret' = UNINITIALIZED]_vars
  /\ [][(AnyConfigure /\ lifecycle = "released" /\ ret' = "true") =>
          /\ lifecycle' = "renewed"
          /\ decoder' = "live"
          /\ DataOffset' = 0 /\ DataLength' = 0
          /\ Len(surfaces') > 0
          /\ \A i \in 1..Len(surfaces') : ~surfaces'[i]]_vars
  /\ [][(AnyDecode /\ lifecycle = "renewed" /\ sink # 0) =>
          ret' # UNINITIALIZED]_vars

\* any RegisterDecodeCompleteCallback call the specifications make
AnyRegister == RegisterWith(0..NumSinks)

\* C14 Sink registration: RegisterDecodeCompleteCallback always returns OK and
\* changes nothing of the session, the accumulator and the pool; a frame a
\* Decode call delivers goes to the callback registered most recently and to
\* no other; after nullptr was registered every Decode call returns
\* UNINITIALIZED.
SinkRegistration ==
  /\ [][AnyRegister =>
          /\ ret' = OK
          /\ UNCHANGED <<decoder, accVars, surfaces, poolAlloc,
                         closeCount>>]_vars
  /\ [](delivCall > 0 => (delivCall = 1 /\ lastFrame.sink = registered
                                         /\ registered # 0))
  /\ [][(AnyDecode /\ registered = 0) =>
          (ret' = UNINITIALIZED /\ pc' = "idle" /\ delivCall' = 0)]_vars

\* a frame delivered to the second callback while bytes wait in the
\* accumulator
SinkRegistrationWitness ==
  Returned /\ delivCall = 1 /\ lastFrame.sink = NumSinks /\ DataLength > 0

\* C15 Status-code domain: whatever path a Decode call takes, the value it
\* returns is one of OK, UNINITIALIZED, ERR_PARAMETER and ERROR, never a
\* status of the engine.
DecodeCodes == {OK, UNINITIALIZED, ERR_PARAMETER, ERROR}
StatusCodeDomain ==
  /\ Returned => ret \in DecodeCodes
  /\ (call = "Decode" /\ pc \in {"submit", "sync"}) => ret = NoReturn

\* a call that returned after SyncOperation failed
StatusCodeDomainWitness ==
  Returned /\ syncRes = MFX_ERR_UNKNOWN /\ ret = ERROR

\* a step of a Decode call
DecodeStep == AnyDecode \/ SubmitBusy \/ SubmitAnswer \/ Sync

\* C16 Bitstream buffer invariant, the capacity being the one the accumulator
\* records and tests, bitstream_.MaxLength: once Configure has set the
\* accumulator up, DataOffset + DataLength <= MaxLength in every state, and
\* no step of a Decode call lowers MaxLength; MaxLength rises only in the
\* append of a Decode call, only when it was less than DataLength plus the
\* chunk size, and then to at least that sum.
BufferInvariant ==
  /\ [](bsInit => DataOffset + DataLength <= MaxLength)
  /\ [][DecodeStep =>
          /\ MaxLength' >= MaxLength
          /\ MaxLength' > MaxLength =>
               /\ AnyDecode
               /\ MaxLength < DataLength + (nextByte' - nextByte)
               /\ MaxLength' >= DataLength + (nextByte' - nextByte)]_vars

\* the buffer has grown and the engine has since consumed part of it
BufferInvariantWitness ==
  bsInit /\ MaxLength > InitialCapacity /\ DataOffset > 0 /\ DataLength > 0

\* C17 Synchronize-then-deliver ordering: Decoded() is called only inside a
\* Decode call, after DecodeFrameAsync answered success with a sync point and
\* SyncOperation on it succeeded, and at most once per call; a call whose
\* SyncOperation fails or times out returns an error without a frame; when
\* the call returns its frame has been delivered.
SyncThenDeliver ==
  /\ [](delivCall > 0 =>
          /\ delivCall = 1
          /\ call = "Decode"
          /\ lastSts = MFX_ERR_NONE /\ lastTok # 0
          /\ syncRes = MFX_ERR_NONE)
  /\ []((Returned /\ syncRes \notin {NoStatus, MFX_ERR_NONE}) =>
          (ret \notin {OK, NoReturn} /\ delivCall = 0))
  /\ [](syncRes # NoStatus => (lastSts = MFX_ERR_NONE /\ lastTok # 0))
  /\ [][delivCall' > delivCall =>
          (pc = "sync" /\ pc' = "idle" /\ ret' = OK)]_vars
  /\ [][(call = "Decode" /\ pc = "idle") => delivCall' <= delivCall]_vars

\* a frame delivered by a call that was first answered busy
SyncThenDeliverWitness ==
  Returned /\ delivCall = 1 /\ syncRes = MFX_ERR_NONE /\ nbusy = MaxBusy

\* C18 Timestamp pairing: the frame a Decode call delivers carries the
\* Timestamp() of the chunk passed to that very call, whichever earlier calls
\* fed the bytes it was decoded from and however often the submission was
\* answered busy.
TimestampPairing ==
  /\ [](delivCall > 0 =>
          (argTs \in 1..MaxTimestamp /\ lastFrame.ts = argTs))
  /\ [][delivCall' > delivCall => (argTs' = argTs /\ pts = argTs)]_vars

\* a frame stamped with the second timestamp, delivered by the call that
\* closes a run fed by earlier calls, after a busy answer
TimestampPairingWitness ==
  Returned /\ delivCall = 1 /\ lastFrame.ts = MaxTimestamp /\ runMore
    /\ nbusy > 0

\* C19 Backing-storage bound: once Configure has set the accumulator up,
\* bitstream_.MaxLength never exceeds bitstream_buffer_.size(), and neither
\* does DataOffset + DataLength, so that every copy of an append stays
\* inside the vector.
BackingStorageBound ==
  bsInit => (MaxLength <= bufSize /\ DataOffset + DataLength <= bufSize)

\* C20 Append-before-outcome: a Decode call that passes the three checks on
\* a configured accumulator adds its chunk to the accumulator once, DataLength
\* rising by the chunk size with DataOffset back at 0, whether the call then
\* finds a surface or not; a call refused with ERROR for want of a free
\* surface has done so too, and a chunk fed again after that is counted in
\* DataLength a second time.
AppendBeforeOutcome ==
  /\ [][(AnyDecode /\ decoder = "live" /\ sink # 0 /\ bsInit
           /\ ret' # ERR_PARAMETER) =>
          /\ DataOffset' = 0
          /\ DataLength' = DataLength + (nextByte' - nextByte)
          /\ unconsumed' = unconsumed \o Fresh(nextByte, nextByte' - nextByte)
          /\ pc' = "idle" => (ret' = ERROR /\ AllLocked /\ nsub' = 0)]_vars
  /\ []((Returned /\ ret = ERROR /\ nsub = 0 /\ bsInit) =>
          DataLength = Len(unconsumed))

\* a call refused for want of a free surface with two chunks in the
\* accumulator, never a byte consumed; the buffer grew for the second chunk
\* while it held the first
AppendBeforeOutcomeWitness ==
  /\ Returned /\ ret = ERROR /\ nsub = 0 /\ AllLocked
  /\ DataLength = 2 /\ nextByte = 3 /\ bufSize = 2 /\ MaxLength > bufSize

\* a CreateVideoEncoder call was made on a factory without the simulcast
\* adapter and nothing was called since
CreatedPlain ==
  created.op = "CreateVideoEncoder" /\ ~config_.use_simulcast_adapter

\* the encoders whose cached list holds a format of the requested codec
Matching ==
  {i \in 1..Len(config_.encoders) :
     \E k \in 1..Len(formats_[i]) :
       /\ formats_[i][k].name = created.format.name
       /\ formats_[i][k].profile = created.format.profile}

FirstMatching == CHOOSE i \in Matching : \A j \in Matching : i <= j

\* C21 Encoder selection order, as claimed: without the simulcast adapter
\* CreateVideoEncoder pairs encoder i with the i-th cached list, hands the
\* creation to the first encoder whose list holds a format of the requested
\* codec and returns what that encoder made; it returns null when no list
\* matches; it never calls the creation function of an encoder whose list
\* does not match.
SelectionOrderAsClaimed ==
  CreatedPlain =>
    /\ Len(formats_) = Len(config_.encoders)
    /\ Matching = {} => (created.result = "null" /\ created.by = 0)
    /\ Matching # {} =>
         /\ created.by = FirstMatching
         /\ created.via \in {"factory", "function"}
         /\ created.result \in {"encoder", "null"}

\* C21 as amended: ... hands the creation to the first encoder whose list
\* holds a format of the requested codec, to its factory if it has one and
\* else to its create_video_encoder, provided it has one of the two; when
\* that first matching encoder has neither, the call throws
\* std::bad_function_call and no later encoder is tried ...
SelectionOrder ==
  CreatedPlain =>
    /\ Len(formats_) = Len(config_.encoders)
    /\ Matching = {} => (created.result = "null" /\ created.by = 0)
    /\ Matching # {} =>
         LET enc == config_.encoders[FirstMatching] IN
         /\ created.by = FirstMatching
         /\ IF enc.factory
              THEN created.via = "factory"
                   /\ created.result \in {"encoder", "null"}
            ELSE IF enc.create_video_encoder
              THEN created.via = "function"
                   /\ created.result \in {"encoder", "null"}
            ELSE created.result = "throw"

\* the second encoder made the encoder: the list of the first does not hold
\* the codec, that of the second holds it behind another format
SelectionOrderWitness ==
  /\ CreatedPlain
  /\ created.by = 2 /\ created.result = "encoder"
  /\ created.format = H264a
  /\ formats_[1] # <<>>
  /\ formats_[2] = <<H264b, H264a>>

====
